---------------------------- MODULE Spec2Model ----------------------------
(***************************************************************************)
(* Model of colpali_engine/utils/processing_utils.py: the static scoring   *)
(* methods of BaseVisualRetrieverProcessor                                 *)
(*   score_single_vector, score_multi_vector, get_topk_plaid,              *)
(*   create_plaid_index                                                    *)
(* each method being one call that runs from "idle" to "returned" or       *)
(* "raised", one action per statement group of its body.                   *)
(*                                                                         *)
(* A tensor is a record [data, device, dtype]; data is a nested sequence   *)
(* of integers (exactly representable in every floating-point dtype).      *)
(***************************************************************************)
EXTENDS Integers, Sequences, FiniteSets

VARIABLES
    pc,            \* position of the running call
    op,            \* the method that was called
    qs,            \* argument qs: list of query tensors
    ps,            \* argument ps: list of passage tensors
    batch_size,    \* argument batch_size
    device,        \* local `device` after `device or get_torch_device("auto")`
    k,             \* argument k of get_topk_plaid
    i,             \* outer loop offset (range(0, len(qs), batch_size))
    j,             \* inner loop offset (range(0, len(ps), batch_size))
    qs_batch,      \* local qs_batch: the padded query batch, on `device`
    scores_batch,  \* local scores_batch: list of score blocks of one query batch
    scores_list,   \* local scores_list
    ret,           \* the value returned to the caller
    error,         \* the exception raised to the caller
    ops_log,       \* tensor primitives executed so far by the call
    backend_calls, \* calls made on the external fast_plaid backend
    installed      \* whether importlib finds the fast_plaid package

vars == <<pc, op, qs, ps, batch_size, device, k, i, j, qs_batch, scores_batch,
          scores_list, ret, error, ops_log, backend_calls, installed>>

---------------------------------------------------------------------------
(* Bounds and input domains                                                *)

\* largest number of queries and of passages in one call
MaxItems == 3

\* the compute devices a call may resolve to
Devices == {"cpu", "cuda"}

\* dtype of the embeddings handed in by the encoder
InputDtype == "bfloat16"

\* Multi-vector query embeddings, shape (L, 2), L = 1 and L = 2.
QueryPool ==
    { << <<1, -2>> >>,
      << <<-1, 1>>, <<1, -2>> >> }

\* Multi-vector passage embeddings, shape (L, 2), L = 1, 1 and 2.
PassagePool ==
    { << <<1, -2>> >>,
      << <<-1, 1>> >>,
      << <<-1, 1>>, <<1, 0>> >> }

\* One-token embeddings of embedding_dim 1, 2 and 3.
DimPool ==
    { << <<2>> >>, << <<1, -2>> >>, << <<1, 1, 1>> >> }

\* Single-vector embeddings (1-D tensors) of dim 1, 2, 2 and 3.
VectorPool ==
    { <<2>>, <<1, -2>>, <<-1, 1>>, <<1, 1, 1>> }

\* All lists of 0..n elements of S.
ListsOf(S, n) == UNION { [1..m -> S] : m \in 0..n }

BatchSizes == 1..MaxItems

TopKs == {1, 2}

---------------------------------------------------------------------------
(* Tensor primitives                                                       *)

Min(a, b) == IF a <= b THEN a ELSE b
Max(a, b) == IF a >= b THEN a ELSE b

RECURSIVE SeqSum(_)
SeqSum(s) == IF Len(s) = 0 THEN 0 ELSE s[1] + SeqSum(Tail(s))

\* maximum of a non-empty sequence of integers
SeqMax(s) == CHOOSE m \in { s[x] : x \in 1..Len(s) } :
                 \A y \in 1..Len(s) : m >= s[y]

Tensor(data, dev, dtype) == [data |-> data, device |-> dev, dtype |-> dtype]

NoValue == [kind |-> "none", data |-> <<>>, device |-> "none", dtype |-> "none"]
Value(kind, t) ==
    [kind |-> kind, data |-> t.data, device |-> t.device, dtype |-> t.dtype]
NoError == [type |-> "none", msg |-> ""]
Raise(type, msg) == [type |-> type, msg |-> msg]

\* the python slice xs[off : off + n]
Slice(xs, off, n) == SubSeq(xs, off + 1, Min(off + n, Len(xs)))

\* embedding_dim of a (L, D) tensor, L >= 1
EmbDim(e) == Len(e[1])

\* Tensor.copy_ / einsum broadcasting of a vector along its last axis:
\* a size-1 axis is repeated, an equal size is kept.
Broadcastable(from, to) == from = to \/ from = 1
Expand(v, D) == IF Len(v) = D THEN v ELSE [d \in 1..D |-> v[1]]

\* padding with a non-zero value (padding_value=1)
Ones(D) == [d \in 1..D |-> 1]

\* the padding vector, padding_value=0
Zeros(D) == [d \in 1..D |-> 0]

\* torch.nn.utils.rnn.pad_sequence(seqs, batch_first=True, padding_value=0):
\* the output is (len(seqs), max length, trailing dims of seqs[0]), filled with
\* the padding value; each sequence is copy_'d into the leading positions of
\* its row, which fails when its trailing dims do not broadcast to the row's.
PadSequenceOk(seqs) ==
    \A x \in 1..Len(seqs) : Broadcastable(EmbDim(seqs[x]), EmbDim(seqs[1]))

MaxLength(seqs) == SeqMax([x \in 1..Len(seqs) |-> Len(seqs[x])])

PadSequence(seqs) ==
    LET D == EmbDim(seqs[1])
        L == MaxLength(seqs)
    IN  [x \in 1..Len(seqs) |->
            [t \in 1..L |-> IF t <= Len(seqs[x])
                              THEN Expand(seqs[x][t], D)
                              ELSE Zeros(D)]]

\* torch.stack(vs): every tensor must have the same shape
StackOk(vs) == \A x \in 1..Len(vs) : Len(vs[x]) = Len(vs[1])
Stack(vs) == vs

\* a contraction that stops after the first component of d
ContractFirst(x, y) == x[1] * y[1]

\* the contraction over the subscript d of an einsum: operand sizes along d
\* must match or be 1
EinsumOk(Dx, Dy) == Dx = Dy \/ Dx = 1 \/ Dy = 1
Contract(x, y) ==
    LET D == Max(Len(x), Len(y))
        X == Expand(x, D)
        Y == Expand(y, D)
    IN  SeqSum([d \in 1..D |-> X[d] * Y[d]])

\* torch.einsum("bd,cd->bc", Q, P)
Einsum_bd_cd(Q, P) ==
    [b \in 1..Len(Q) |-> [c \in 1..Len(P) |-> Contract(Q[b], P[c])]]

\* torch.einsum("bnd,csd->bcns", Q, P)
Einsum_bnd_csd(Q, P) ==
    [b \in 1..Len(Q) |-> [c \in 1..Len(P) |->
        [n \in 1..Len(Q[b]) |-> [s \in 1..Len(P[c]) |->
            Contract(Q[b][n], P[c][s])]]]]

\* .max(dim=3)[0] of a (b, c, n, s) tensor
MaxDim3(T) ==
    [b \in 1..Len(T) |-> [c \in 1..Len(T[b]) |->
        [n \in 1..Len(T[b][c]) |-> SeqMax(T[b][c][n])]]]

\* .sum(dim=2) of a (b, c, n) tensor
SumDim2(T) ==
    [b \in 1..Len(T) |-> [c \in 1..Len(T[b]) |-> SeqSum(T[b][c])]]

\* line 129: the (bq, bp) block of MaxSim scores of two padded batches
MaxSimBlock(Q, P) == SumDim2(MaxDim3(Einsum_bnd_csd(Q, P)))

\* the blocks joined along the passage axis last block first
RECURSIVE CatDim1Reversed(_)
CatDim1Reversed(blocks) ==
    IF Len(blocks) = 1 THEN blocks[1]
    ELSE LET rest == CatDim1Reversed(Tail(blocks))
         IN  [b \in 1..Len(blocks[1]) |-> rest[b] \o blocks[1][b]]

\* torch.cat(blocks, dim=1): rows of the blocks joined, block after block
RECURSIVE CatDim1(_)
CatDim1(blocks) ==
    IF Len(blocks) = 1 THEN blocks[1]
    ELSE LET rest == CatDim1(Tail(blocks))
         IN  [b \in 1..Len(blocks[1]) |-> blocks[1][b] \o rest[b]]

\* torch.cat(blocks, dim=0): the blocks' rows, block after block
RECURSIVE CatDim0(_)
CatDim0(blocks) ==
    IF Len(blocks) = 0 THEN <<>> ELSE blocks[1] \o CatDim0(Tail(blocks))

\* Tensor.to(torch.float32): the values of the model are integers, which
\* float32 holds exactly; only the dtype changes
ToFloat32(t) == [t EXCEPT !.dtype = "float32"]

\* Tensor.to(device) / Tensor.cpu()
ToDevice(t, dev) == [t EXCEPT !.device = dev]

\* a transfer that is left out: the tensor stays where it was computed
CpuOmitted(t) == t

\* Tensor.cpu()
Cpu(t) == ToDevice(t, "cpu")

DataOf(blocks) == [x \in 1..Len(blocks) |-> blocks[x].data]

---------------------------------------------------------------------------
(* State after construction: no call is running                            *)

Init ==
    /\ pc = "idle"
    /\ op = "none"
    /\ qs = <<>>
    /\ ps = <<>>
    /\ batch_size = 1
    /\ device = "cpu"
    /\ k = 1
    /\ i = 0
    /\ j = 0
    /\ qs_batch = NoValue
    /\ scores_batch = <<>>
    /\ scores_list = <<>>
    /\ ret = NoValue
    /\ error = NoError
    /\ ops_log = {}
    /\ backend_calls = <<>>
    /\ installed = TRUE

\* the arguments a caller may pass as (qs, ps) to score_multi_vector
MultiArgs ==
    (ListsOf(QueryPool, MaxItems) \X ListsOf(PassagePool, MaxItems))
    \cup (ListsOf(DimPool, MaxItems - 1) \X ListsOf(DimPool, MaxItems - 1))

\* the arguments a caller may pass as (qs, ps) to score_single_vector
SingleArgs ==
    ListsOf(VectorPool, MaxItems - 1) \X ListsOf(VectorPool, MaxItems - 1)

\* the arguments a caller may pass as qs to get_topk_plaid
TopkArgs == ListsOf(QueryPool, MaxItems) \cup ListsOf(DimPool, MaxItems - 1)

\* the arguments a caller may pass as ps to create_plaid_index
IndexArgs == ListsOf(PassagePool, MaxItems - 1)

\* entering a method (from pc = "idle"): the arguments are bound and `device`
\* is resolved
Enter(name, q, p, b, dev) ==
    /\ op' = name
    /\ qs' = q
    /\ ps' = p
    /\ batch_size' = b
    /\ device' = dev

\* a guard that forgets the passages
EmptyGuardQueriesOnly(q, p, next) ==
    IF Len(q) = 0
      THEN /\ pc' = "raised"
           /\ error' = Raise("ValueError", "No queries provided")
      ELSE /\ pc' = next
           /\ error' = error

\* the empty-input guards shared by the scoring methods
EmptyGuard(q, p, next) ==
    IF Len(q) = 0
      THEN /\ pc' = "raised"
           /\ error' = Raise("ValueError", "No queries provided")
    ELSE IF Len(p) = 0
      THEN /\ pc' = "raised"
           /\ error' = Raise("ValueError", "No passages provided")
    ELSE /\ pc' = next
         /\ error' = error

---------------------------------------------------------------------------
(* score_single_vector                                                     *)

\* lines 60-65
score_single_vector_enter ==
    /\ pc = "idle"
    /\ \E args \in SingleArgs, dev \in Devices :
            /\ Enter("score_single_vector", args[1], args[2], batch_size, dev)
            /\ EmptyGuard(args[1], args[2], "single_stack")
            /\ UNCHANGED <<k, i, j, qs_batch, scores_batch, scores_list, ret,
                           ops_log, backend_calls, installed>>

\* lines 67-74
score_single_vector_body ==
    /\ pc = "single_stack"
    /\ IF ~StackOk(qs)
         THEN /\ pc' = "raised"
              /\ error' = Raise("RuntimeError", "stack expects each tensor to be equal size")
              /\ ops_log' = ops_log \cup {"stack"}
              /\ ret' = ret
       ELSE IF ~StackOk(ps)
         THEN /\ pc' = "raised"
              /\ error' = Raise("RuntimeError", "stack expects each tensor to be equal size")
              /\ ops_log' = ops_log \cup {"stack", "to_device"}
              /\ ret' = ret
       ELSE IF ~EinsumOk(Len(qs[1]), Len(ps[1]))
         THEN /\ pc' = "raised"
              /\ error' = Raise("RuntimeError", "einsum operands do not broadcast")
              /\ ops_log' = ops_log \cup {"stack", "to_device", "einsum"}
              /\ ret' = ret
       ELSE LET qs_stacked == ToDevice(Tensor(Stack(qs), "cpu", InputDtype), device)
                ps_stacked == ToDevice(Tensor(Stack(ps), "cpu", InputDtype), device)
                scores == Tensor(Einsum_bd_cd(qs_stacked.data, ps_stacked.data),
                                 qs_stacked.device, qs_stacked.dtype)
            IN  IF Len(scores.data) # Len(qs)
                  THEN /\ pc' = "raised"
                       /\ error' = Raise("AssertionError", "Expected len(qs) scores")
                       /\ ret' = ret
                  ELSE /\ pc' = "returned"
                       /\ error' = error
                       /\ ret' = Value("tensor", ToFloat32(scores))
                /\ ops_log' = ops_log \cup {"stack", "to_device", "einsum"}
    /\ UNCHANGED <<op, qs, ps, batch_size, device, k, i, j, qs_batch,
                   scores_batch, scores_list, backend_calls, installed>>

---------------------------------------------------------------------------
(* score_multi_vector                                                      *)

\* lines 108-115
score_multi_vector_enter ==
    /\ pc = "idle"
    /\ \E args \in MultiArgs, b \in BatchSizes, dev \in Devices :
            /\ Enter("score_multi_vector", args[1], args[2], b, dev)
            /\ EmptyGuard(args[1], args[2], "multi_qs")
            /\ scores_list' = <<>>
            /\ UNCHANGED <<k, i, j, qs_batch, scores_batch, ret, ops_log,
                           backend_calls, installed>>

\* lines 117-121: the next query batch is padded and moved to the device
score_multi_vector_qs_batch ==
    /\ pc = "multi_qs"
    /\ i < Len(qs)
    /\ LET seqs == Slice(qs, i, batch_size)
       IN  IF PadSequenceOk(seqs)
             THEN /\ qs_batch' = ToDevice(Tensor(PadSequence(seqs), "cpu", InputDtype), device)
                  /\ scores_batch' = <<>>
                  /\ j' = 0
                  /\ pc' = "multi_ps"
                  /\ error' = error
                  /\ ops_log' = ops_log \cup {"pad_sequence", "to_device"}
             ELSE /\ pc' = "raised"
                  /\ error' = Raise("RuntimeError", "pad_sequence cannot copy a sequence")
                  /\ ops_log' = ops_log \cup {"pad_sequence"}
                  /\ UNCHANGED <<qs_batch, scores_batch, j>>
    /\ UNCHANGED <<op, qs, ps, batch_size, device, k, i, scores_list, ret,
                   backend_calls, installed>>

\* lines 122-129: the next passage batch is padded, moved to the device and
\* scored against the query batch; the block stays on the device
score_multi_vector_ps_batch ==
    /\ pc = "multi_ps"
    /\ j < Len(ps)
    /\ LET seqs == Slice(ps, j, batch_size)
       IN  IF ~PadSequenceOk(seqs)
             THEN /\ pc' = "raised"
                  /\ error' = Raise("RuntimeError", "pad_sequence cannot copy a sequence")
                  /\ ops_log' = ops_log \cup {"pad_sequence"}
                  /\ UNCHANGED <<scores_batch, j>>
           ELSE IF ~EinsumOk(EmbDim(qs_batch.data[1]), EmbDim(seqs[1]))
             THEN /\ pc' = "raised"
                  /\ error' = Raise("RuntimeError", "einsum operands do not broadcast")
                  /\ ops_log' = ops_log \cup {"pad_sequence", "to_device", "einsum"}
                  /\ UNCHANGED <<scores_batch, j>>
           ELSE LET ps_batch == ToDevice(Tensor(PadSequence(seqs), "cpu", InputDtype), device)
                    block == Tensor(MaxSimBlock(qs_batch.data, ps_batch.data),
                                    qs_batch.device, qs_batch.dtype)
                IN  /\ scores_batch' = Append(scores_batch, block)
                    /\ j' = j + batch_size
                    /\ pc' = "multi_ps"
                    /\ error' = error
                    /\ ops_log' = ops_log \cup {"pad_sequence", "to_device", "einsum"}
    /\ UNCHANGED <<op, qs, ps, batch_size, device, k, i, qs_batch, scores_list,
                   ret, backend_calls, installed>>

\* lines 130-131: the blocks of the query batch are joined along the passage
\* axis, the joined tensor is moved to the host and kept in scores_list
score_multi_vector_cat ==
    /\ pc = "multi_ps"
    /\ j >= Len(ps)
    /\ LET joined == Cpu(Tensor(CatDim1(DataOf(scores_batch)),
                                scores_batch[1].device, scores_batch[1].dtype))
       IN  /\ scores_batch' = <<joined>>
           /\ scores_list' = Append(scores_list, joined)
    /\ i' = i + batch_size
    /\ pc' = "multi_qs"
    /\ ops_log' = ops_log \cup {"cat", "cpu"}
    /\ UNCHANGED <<op, qs, ps, batch_size, device, k, j, qs_batch, ret, error,
                   backend_calls, installed>>

\* lines 133-137
score_multi_vector_return ==
    /\ pc = "multi_qs"
    /\ i >= Len(qs)
    /\ LET scores == Tensor(CatDim0(DataOf(scores_list)),
                            scores_list[1].device, scores_list[1].dtype)
       IN  IF Len(scores.data) # Len(qs)
             THEN /\ pc' = "raised"
                  /\ error' = Raise("AssertionError", "Expected len(qs) scores")
                  /\ ret' = ret
             ELSE /\ pc' = "returned"
                  /\ error' = error
                  /\ ret' = Value("tensor", ToFloat32(scores))
    /\ ops_log' = ops_log \cup {"cat"}
    /\ UNCHANGED <<op, qs, ps, batch_size, device, k, i, j, qs_batch,
                   scores_batch, scores_list, backend_calls, installed>>

\* the number of batches range(0, len(xs), b) walks through
NumBatches(xs, b) == (Len(xs) + b - 1) \div b

\* lines 117-133 as one function of the arguments: the matrix the double loop
\* of score_multi_vector assembles for batch size b
ScoreMultiVector(Q, P, b) ==
    CatDim0([y \in 1..NumBatches(Q, b) |->
        CatDim1([x \in 1..NumBatches(P, b) |->
            MaxSimBlock(PadSequence(Slice(Q, (y - 1) * b, b)),
                        PadSequence(Slice(P, (x - 1) * b, b)))])])

---------------------------------------------------------------------------
(* get_topk_plaid                                                          *)

\* plaid_index.search(queries_embeddings, top_k): the external index answers
\* one ranked list per row of the batch it is given
Search(batch, top_k) ==
    [x \in 1..Len(batch) |-> [query |-> batch[x], top_k |-> top_k]]

\* lines 152-157
get_topk_plaid_enter ==
    /\ pc = "idle"
    /\ \E q \in TopkArgs, b \in BatchSizes, dev \in Devices, top \in TopKs :
            /\ Enter("get_topk_plaid", q, <<>>, b, dev)
            /\ k' = top
            /\ IF Len(q) = 0
                 THEN /\ pc' = "raised"
                      /\ error' = Raise("ValueError", "No queries provided")
                 ELSE /\ pc' = "topk_qs"
                      /\ error' = error
            /\ scores_list' = <<>>
            /\ UNCHANGED <<i, j, qs_batch, scores_batch, ret, ops_log,
                           backend_calls, installed>>

\* lines 159-169: one query batch is padded, moved, cast and searched; the
\* batch's answer is appended to scores_list as one element
get_topk_plaid_batch ==
    /\ pc = "topk_qs"
    /\ i < Len(qs)
    /\ LET seqs == Slice(qs, i, batch_size)
       IN  IF PadSequenceOk(seqs)
             THEN LET padded == ToDevice(Tensor(PadSequence(seqs), "cpu", InputDtype), device)
                      found == Search(ToFloat32(padded).data, k)
                  IN  /\ qs_batch' = padded
                      /\ scores_batch' = found
                      /\ scores_list' = Append(scores_list, found)
                      /\ backend_calls' = Append(backend_calls,
                             [name |-> "search", n |-> Len(padded.data),
                              dtype |-> ToFloat32(padded).dtype])
                      /\ i' = i + batch_size
                      /\ pc' = "topk_qs"
                      /\ error' = error
                      /\ ops_log' = ops_log \cup {"pad_sequence", "to_device", "search"}
             ELSE /\ pc' = "raised"
                  /\ error' = Raise("RuntimeError", "pad_sequence cannot copy a sequence")
                  /\ ops_log' = ops_log \cup {"pad_sequence"}
                  /\ UNCHANGED <<qs_batch, scores_batch, scores_list, backend_calls, i>>
    /\ UNCHANGED <<op, qs, ps, batch_size, device, k, j, ret, installed>>

\* line 171
get_topk_plaid_return ==
    /\ pc = "topk_qs"
    /\ i >= Len(qs)
    /\ pc' = "returned"
    /\ ret' = [kind |-> "list", data |-> scores_list, device |-> "cpu", dtype |-> "list"]
    /\ UNCHANGED <<op, qs, ps, batch_size, device, k, i, j, qs_batch,
                   scores_batch, scores_list, error, ops_log, backend_calls,
                   installed>>

---------------------------------------------------------------------------
(* create_plaid_index                                                      *)

\* lines 187-194: there is no guard on len(ps); the backend's create is called
\* with whatever list the caller passed
create_plaid_index_call ==
    /\ pc = "idle"
    /\ \E p \in IndexArgs, dev \in Devices, found \in BOOLEAN :
            /\ Enter("create_plaid_index", <<>>, p, batch_size, dev)
            /\ installed' = found
            /\ IF ~found
                 THEN /\ pc' = "raised"
                      /\ error' = Raise("ImportError", "FastPlaid is not installed")
                      /\ UNCHANGED <<ret, backend_calls, ops_log>>
                 ELSE LET docs == [x \in 1..Len(p) |->
                                      ToFloat32(ToDevice(Tensor(p[x], "cpu", InputDtype), dev))]
                      IN  /\ backend_calls' = Append(backend_calls,
                                 [name |-> "create", n |-> Len(docs), dtype |-> "float32"])
                          /\ ops_log' = ops_log \cup
                                 (IF Len(p) > 0 THEN {"to_device", "create"} ELSE {"create"})
                          /\ pc' = "returned"
                          /\ error' = error
                          /\ ret' = [kind |-> "index", data |-> DataOf(docs),
                                     device |-> dev, dtype |-> "FastPlaid"]
            /\ UNCHANGED <<k, i, j, qs_batch, scores_batch, scores_list>>

---------------------------------------------------------------------------

Next ==
    \/ score_single_vector_enter
    \/ score_single_vector_body
    \/ score_multi_vector_enter
    \/ score_multi_vector_qs_batch
    \/ score_multi_vector_ps_batch
    \/ score_multi_vector_cat
    \/ score_multi_vector_return
    \/ get_topk_plaid_enter
    \/ get_topk_plaid_batch
    \/ get_topk_plaid_return
    \/ create_plaid_index_call

Spec == Init /\ [][Next]_vars

---------------------------------------------------------------------------
(* Vocabulary of the properties                                            *)

Returned == pc = "returned"
Raised == pc = "raised"
Scoring == op \in {"score_single_vector", "score_multi_vector"}
Multi == op = "score_multi_vector"
Single == op = "score_single_vector"

\* embedding_dim of an argument item: a 1-D vector for score_single_vector,
\* a (L, D) tensor otherwise
ItemDim(e) == IF Single THEN Len(e) ELSE EmbDim(e)

\* every embedding of the call has the same dimensionality D
UniformDim ==
    \A x, y \in { qs[a] : a \in 1..Len(qs) } \cup { ps[a] : a \in 1..Len(ps) } :
        ItemDim(x) = ItemDim(y)

\* the plain dot product of two vectors of equal dimension
Dot(x, y) == SeqSum([d \in 1..Len(x) |-> x[d] * y[d]])

\* the passages that share the batch of passage c (1-based)
BatchOf(xs, c, b) == Slice(xs, ((c - 1) \div b) * b, b)
PosInBatch(c, b) == ((c - 1) % b) + 1

\* MaxSim of query q against passage p with no padding at all
Unpadded(q, p) ==
    SeqSum([n \in 1..Len(q) |->
        SeqMax([s \in 1..Len(p) |-> Dot(q[n], p[s])])])

\* the score blocks of score_multi_vector that sit on an accelerator
AcceleratorBlocks ==
    IF Multi
      THEN Cardinality({ x \in 1..Len(scores_batch) : scores_batch[x].device # "cpu" })
      ELSE 0

\* the returned matrix has exactly |qs| rows of |ps| entries
FullShape ==
    /\ Len(ret.data) = Len(qs)
    /\ \A r \in 1..Len(ret.data) : Len(ret.data[r]) = Len(ps)

\* the call's result is the double loop's matrix (the stepwise actions and
\* the function ScoreMultiVector agree)
StepsMatchFunction ==
    (Multi /\ Returned) => ret.data = ScoreMultiVector(qs, ps, batch_size)

---------------------------------------------------------------------------
(* C1: score_multi_vector returns the same matrix for every batch size:    *)
(* whatever batch_size the call used, the matrix equals the one any other  *)
(* batch size b >= 1 gives on the same queries and passages.               *)
C1_BatchSizeInvariant ==
    (Multi /\ Returned /\ UniformDim) =>
        \A b \in BatchSizes : ScoreMultiVector(qs, ps, b) = ret.data

---------------------------------------------------------------------------
(* C2: a returned score_multi_vector matrix has shape (|qs|, |ps|), and    *)
(* for embeddings of one dimensionality its entry [r][c] is the score of   *)
(* the r-th query taken alone against the c-th passage as padded in its    *)
(* batch: rows and columns are in input order, none repeated or dropped.   *)
C2_RowMajorOrder ==
    (Multi /\ Returned) =>
        /\ FullShape
        /\ UniformDim =>
              \A r \in 1..Len(qs), c \in 1..Len(ps) :
                  ret.data[r][c] =
                      MaxSimBlock(PadSequence(<<qs[r]>>),
                                  PadSequence(BatchOf(ps, c, batch_size)))
                          [1][PosInBatch(c, batch_size)]

\* three queries and three passages in batches of two (the last batch holds
\* one item), with scores that tell the passages apart
C2_Witness ==
    /\ Multi /\ Returned /\ UniformDim
    /\ Len(qs) = 3 /\ Len(ps) = 3 /\ batch_size = 2
    /\ ret.data[3][1] # ret.data[3][3]
    /\ ret.data[1][3] # ret.data[3][3]

---------------------------------------------------------------------------
(* C3: the matrix returned by score_single_vector or score_multi_vector is *)
(* in host memory, whatever device the computation ran on.                 *)
C3_ResultOnHost ==
    (Scoring /\ Returned) => ret.device = "cpu"

---------------------------------------------------------------------------
(* C4: get_topk_plaid returns one ranked result per query, in query order: *)
(* the returned list has |qs| elements and its x-th element is the index's *)
(* answer for the x-th query.                                              *)
C4_OneResultPerQuery ==
    (op = "get_topk_plaid" /\ Returned) =>
        /\ Len(ret.data) = Len(qs)
        /\ \A x \in 1..Len(qs) :
              ret.data[x] =
                  Search(PadSequence(BatchOf(qs, x, batch_size)), k)
                      [PosInBatch(x, batch_size)]

---------------------------------------------------------------------------
(* C5: a scoring call with no queries or no passages is in the raised      *)
(* state with the empty-input ValueError, has executed no tensor primitive *)
(* and returned nothing; and a returned matrix has at least one row and    *)
(* one column.                                                             *)
C5_EmptyInputRejected ==
    /\ (Scoring /\ (Len(qs) = 0 \/ Len(ps) = 0)) =>
          /\ Raised
          /\ error.type = "ValueError"
          /\ error.msg = (IF Len(qs) = 0 THEN "No queries provided"
                                         ELSE "No passages provided")
          /\ ops_log = {}
          /\ ret = NoValue
    /\ (Scoring /\ Returned) =>
          /\ Len(ret.data) > 0
          /\ \A r \in 1..Len(ret.data) : Len(ret.data[r]) > 0

\* a score_multi_vector call with queries and no passages has been rejected
C5_Witness ==
    Multi /\ Len(qs) > 0 /\ Len(ps) = 0 /\ Raised

---------------------------------------------------------------------------
(* C6: an index operation on empty input never reaches the backend:        *)
(* get_topk_plaid with no queries raises without a search, and             *)
(* create_plaid_index with no passages makes no backend call and returns   *)
(* no index.                                                               *)
C6_EmptyIndexInputRejected ==
    /\ (op = "get_topk_plaid" /\ Len(qs) = 0) =>
          (Raised /\ backend_calls = <<>>)
    /\ (op = "create_plaid_index" /\ Len(ps) = 0) =>
          (backend_calls = <<>> /\ ret.kind # "index")

---------------------------------------------------------------------------
(* C7: for single vectors of one dimension, score_single_vector returns a  *)
(* (|qs|, |ps|) matrix whose entry [r][c] is the dot product of query r    *)
(* and passage c; and score_multi_vector on one one-token query and one    *)
(* one-token passage returns the 1x1 matrix holding their dot product.     *)
C7_DotProduct ==
    /\ (Single /\ Returned /\ UniformDim) =>
          /\ FullShape
          /\ \A r \in 1..Len(qs), c \in 1..Len(ps) :
                ret.data[r][c] = Dot(qs[r], ps[c])
    /\ (Multi /\ Returned /\ UniformDim /\ Len(qs) = 1 /\ Len(ps) = 1
          /\ Len(qs[1]) = 1 /\ Len(ps[1]) = 1) =>
          ret.data = << <<Dot(qs[1][1], ps[1][1])>> >>

\* a 2 x 2 single-vector call with a negative and a positive product, and a
\* one-token by one-token multi-vector call, both served by the same model
C7_Witness ==
    \/ /\ Single /\ Returned /\ UniformDim
       /\ Len(qs) = 2 /\ Len(ps) = 2
       /\ ret.data[1][2] < 0 /\ ret.data[2][2] > 0
    \/ /\ Multi /\ Returned /\ UniformDim
       /\ Len(qs) = 1 /\ Len(ps) = 1 /\ Len(qs[1]) = 1 /\ Len(ps[1]) = 1
       /\ ret.data[1][1] < 0

---------------------------------------------------------------------------
(* C8: a scoring call whose embeddings do not all share one dimensionality *)
(* never returns a matrix: once it ends it has raised, with a              *)
(* dimension-mismatch error if both inputs are non-empty; and any matrix   *)
(* returned is complete.                                                   *)
C8_DimensionMismatchRejected ==
    /\ (Scoring /\ ~UniformDim) =>
          /\ ~Returned
          /\ (Raised /\ Len(qs) > 0 /\ Len(ps) > 0) => error.type = "RuntimeError"
    /\ (Scoring /\ Returned) => FullShape

---------------------------------------------------------------------------
(* C9: during score_multi_vector the accelerator holds the score block of  *)
(* at most one (query batch, passage batch) pair.                          *)
C9_OneBlockOnDevice == AcceleratorBlocks <= 1

(* C9, per query batch: the score blocks of one query batch stay on the     *)
(* compute device until all its passage batches are scored; they are       *)
(* joined and moved to the host once per query batch.  So it holds at      *)
(* most one block per passage batch, all of the current query batch; none  *)
(* between two query batches; and scores_list is entirely on the host.     *)
C9_OneQueryBatchOnDevice ==
    Multi =>
        /\ AcceleratorBlocks <= NumBatches(ps, batch_size)
        /\ pc \in {"multi_qs", "returned"} => AcceleratorBlocks = 0
        /\ pc = "multi_ps" =>
              /\ Len(scores_batch) * batch_size >= j
              /\ \A x \in 1..Len(scores_batch) :
                    Len(scores_batch[x].data) = Len(qs_batch.data)
        /\ \A y \in 1..Len(scores_list) : scores_list[y].device = "cpu"

\* on the accelerator, a second query batch under way while the first one's
\* scores are already on the host
C9_Witness ==
    /\ Multi /\ device = "cuda" /\ pc = "multi_ps"
    /\ Len(scores_list) = 1
    /\ AcceleratorBlocks = 2

---------------------------------------------------------------------------
(* C10: with unmasked zero padding, the score of query r against passage c *)
(* depends on the rest of the call only through the longest passage of c's *)
(* batch: each real query token n contributes max_s q[n].p[s], clamped     *)
(* below at 0 exactly when p is shorter than that longest passage; padded  *)
(* query tokens contribute 0.  The score is never below the unpadded       *)
(* MaxSim sum and equals it when every query token's best match is >= 0.   *)
BestMatch(q, n, p) == SeqMax([s \in 1..Len(p) |-> Dot(q[n], p[s])])

Clamped(q, p, longest) ==
    SeqSum([n \in 1..Len(q) |->
        IF Len(p) < longest THEN Max(0, BestMatch(q, n, p))
                            ELSE BestMatch(q, n, p)])

C10_PaddingClamp ==
    (Multi /\ Returned /\ UniformDim) =>
        \A r \in 1..Len(qs), c \in 1..Len(ps) :
            /\ ret.data[r][c] =
                  Clamped(qs[r], ps[c], MaxLength(BatchOf(ps, c, batch_size)))
            /\ ret.data[r][c] >= Unpadded(qs[r], ps[c])
            /\ (\A n \in 1..Len(qs[r]) : BestMatch(qs[r], n, ps[c]) >= 0) =>
                  ret.data[r][c] = Unpadded(qs[r], ps[c])

\* a short query padded beside a longer one, scored against a short passage
\* padded beside a longer one, where the clamp lifts the score
C10_Witness ==
    /\ Multi /\ Returned /\ UniformDim
    /\ Len(qs) = 2 /\ Len(ps) = 2 /\ batch_size = 2
    /\ Len(qs[1]) < Len(qs[2])
    /\ Len(ps[1]) < Len(ps[2])
    /\ ret.data[1][1] > Unpadded(qs[1], ps[1])
    /\ ret.data[2][2] = Unpadded(qs[2], ps[2])

=============================================================================
